---- MODULE Spec2Model ----
(***************************************************************************)
(* QRTextFetch: a Win32 utility that turns the text of an edit control     *)
(* into a QR-code PNG in a temporary file and opens it.                    *)
(*                                                                         *)
(* Four specifications share this module:                                  *)
(*   Spec       the controller (QrController / MainWindow): initialize,    *)
(*              generate clicks, window destruction;                       *)
(*   SpecGen    SimpleQRCodeGenerator::generate called as a unit with any  *)
(*              text and path;                                             *)
(*   SpecRaster the pixel loop of generatePNG on small grids;              *)
(*   SpecScale  calculateScale on every grid size.                         *)
(*                                                                         *)
(* A text is known by its length and by whether the QR encoder can segment *)
(* it; a byte stream is a sequence of integers; a file is a record of      *)
(* whether it exists and the bytes it holds.                               *)
(***************************************************************************)
EXTENDS Integers, Sequences, FiniteSets, TLC

\* ------------------------------------------------------------------ bounds
MaxCalls   == 2      \* generate calls of one SpecGen behaviour
MaxClicks  == 2      \* button clicks of one Spec behaviour
MaxSize    == 2      \* largest grid side rasterized in SpecRaster
MaxScale   == 2      \* largest scale rasterized in SpecRaster
MaxBorder  == 1      \* largest border rasterized in SpecRaster

\* ------------------------------------------------------- program constants
maxPayloadSizeUtf8 == 2953
border             == 4

\* ------------------------------------------------ the QR encoder (library)
MaxVersion == 40

\* side of the symbol of version v
SizeOfVersion(v) == 17 + 4 * v

\* every side the encoder can return: 21 to 177 in steps of 4
EncoderSizes == { SizeOfVersion(v) : v \in 1..MaxVersion }

\* the versions the generate pipeline is exercised with (both scale tiers an
\* encoder symbol can fall in, and the largest symbol)
Versions == {1, 4, MaxVersion}

\* byte-mode capacity of the largest symbol at each error-correction level
Capacity(ecl) ==
    CASE ecl = "LOW"      -> 2953
      [] ecl = "MEDIUM"   -> 2331
      [] ecl = "QUARTILE" -> 1663
      [] ecl = "HIGH"     -> 1273

NoQr == [size |-> 0]

\* qrcodegen::QrCode::encodeText: the set of its outcomes for a text and a
\* level; it throws (outcome NoQr) when the text has characters it cannot
\* segment or exceeds the capacity of the level.
encodeText(text, ecl) ==
    IF ~text.supported \/ text.len > Capacity(ecl)
    THEN {NoQr}
    ELSE { [size |-> SizeOfVersion(v)] : v \in Versions }

\* ------------------------------------------------------------ pure helpers
chooseErrorCorrectionStrict(length) ==
    IF length < 100 THEN "HIGH"
    ELSE IF length <= 500 THEN "MEDIUM"
    ELSE "LOW"

chooseErrorCorrection(length) ==
    IF length <= 100 THEN "HIGH"
    ELSE IF length <= 500 THEN "MEDIUM"
    ELSE "LOW"

calculateScaleShifted(qrSize) ==
    IF qrSize >= 30 THEN 6
    ELSE IF qrSize > 20 THEN 8
    ELSE 10

calculateScale(qrSize) ==
    IF qrSize > 30 THEN 6
    ELSE IF qrSize > 20 THEN 8
    ELSE 10

\* const int imgSize = (size + border * 2) * scale;
ImgSizeOneBorder(size, sc, bd) == (size + bd) * sc

ImgSize(size, sc, bd) == (size + bd * 2) * sc

\* lodepng::encode: the PNG byte stream of a bitmap.  The stream carries the
\* width and the height (IHDR) and then the image data, which the grid and
\* the scale determine.
lodepngEncode(qrc, sc, w, h) == <<w, h, qrc.size, sc>>

\* generatePNG: the stream on error code 0, the empty vector otherwise
generatePNG(qrc, sc, bd, error) ==
    IF error # 0 THEN <<>>
    ELSE lodepngEncode(qrc, sc, ImgSize(qrc.size, sc, bd), ImgSize(qrc.size, sc, bd))

\* --------------------------------------------------------------- the files
Stems    == {"qrcA", "qrcB"}
Names    == [stem : Stems, ext : {"tmp", "png"}]
PngNames == { n \in Names : n.ext = "png" }
NoPath   == [stem |-> "", ext |-> ""]

AbsentFile  == [exists |-> FALSE, bytes |-> <<>>]
ForeignFile == [exists |-> TRUE,  bytes |-> <<0, 0, 0>>]
FileOf(b)   == [exists |-> TRUE,  bytes |-> b]

NoText == [len |-> 0, supported |-> TRUE]

VARIABLES
    \* the file system
    fs,
    \* QrController / MainWindow
    phase, tempPngPath_, status, dialogs, cpc, textW, clicks, sessionPath,
    statusBefore, pathBefore, generateCalled, last,
    \* the frame of the generate call in progress or last returned
    gpc, textUtf8, filename, eccLevel, qr, scale, pngData, file, result,
    calls, fsBefore, ncalls,
    \* SpecRaster
    r_qr, r_scale, r_border, image, r_y, r_done,
    \* SpecScale
    s_qrSize, s_scale, s_done

ctlVars    == <<phase, tempPngPath_, status, dialogs, cpc, textW, clicks,
                sessionPath, statusBefore, pathBefore, generateCalled, last>>
genVars    == <<gpc, textUtf8, filename, eccLevel, qr, scale, pngData, file,
                result, calls, fsBefore, ncalls>>
rasterVars == <<r_qr, r_scale, r_border, image, r_y, r_done>>
scaleVars  == <<s_qrSize, s_scale, s_done>>
vars       == <<fs, ctlVars, genVars, rasterVars, scaleVars>>

\* --------------------------------------------- SimpleQRCodeGenerator::generate
Call(stage, ok) == [stage |-> stage, ok |-> ok]

\* catch (...) { return false; }
CatchResultEscapes == "exception"

CatchResult == "false"

\* the frame of a fresh call generate(text, path)
EnterGenerate(text, path) ==
    /\ gpc' = "entry"
    /\ textUtf8' = text
    /\ filename' = path
    /\ eccLevel' = "none"
    /\ qr' = NoQr
    /\ scale' = 0
    /\ pngData' = <<>>
    /\ file' = FALSE
    /\ result' = "none"
    /\ calls' = <<>>
    /\ fsBefore' = fs

\* lines 19-27: the two pre-checks, then the choice of the level
PreCheckRejectsNoUpper(text) == text.len = 0

PreCheckRejects(text) == text.len = 0 \/ text.len > maxPayloadSizeUtf8

generate_entry ==
    /\ gpc = "entry"
    /\ IF PreCheckRejects(textUtf8)
       THEN /\ result' = "false"
            /\ gpc' = "ret"
            /\ UNCHANGED <<eccLevel, calls>>
       ELSE /\ eccLevel' = chooseErrorCorrection(textUtf8.len)
            /\ calls' = Append(calls, Call("ecc", TRUE))
            /\ gpc' = "encode"
            /\ UNCHANGED result
    /\ UNCHANGED <<fs, ctlVars, textUtf8, filename, qr, scale, pngData, file,
                   fsBefore, ncalls, rasterVars, scaleVars>>

\* line 28: encodeText returns a symbol or throws into the catch of line 44
generate_encode ==
    /\ gpc = "encode"
    /\ \E q \in encodeText(textUtf8, eccLevel) :
          /\ qr' = q
          /\ calls' = Append(calls, Call("encode", q # NoQr))
          /\ IF q = NoQr
             THEN result' = CatchResult /\ gpc' = "ret"
             ELSE gpc' = "png" /\ UNCHANGED result
    /\ UNCHANGED <<fs, ctlVars, textUtf8, filename, eccLevel, scale, pngData,
                   file, fsBefore, ncalls, rasterVars, scaleVars>>

\* lines 30-36: the scale, the bitmap and its PNG stream; an empty stream fails
generate_png ==
    /\ gpc = "png"
    /\ \E error \in {0, 1} :
          /\ scale' = calculateScale(qr.size)
          /\ pngData' = generatePNG(qr, scale', border, error)
          /\ calls' = Append(calls, Call("serialize", error = 0))
          /\ IF pngData' = <<>>
             THEN result' = "false" /\ gpc' = "ret"
             ELSE gpc' = "open" /\ UNCHANGED result
    /\ UNCHANGED <<fs, ctlVars, textUtf8, filename, eccLevel, qr, file,
                   fsBefore, ncalls, rasterVars, scaleVars>>

\* makeFileHandle: CreateFileW(GENERIC_WRITE, CREATE_ALWAYS) creates the file
\* or truncates the one that is there, or fails and touches nothing
makeFileHandle(files, path, created) ==
    IF created THEN [files EXCEPT ![path] = FileOf(<<>>)] ELSE files

\* lines 37, 136-142: savePng up to the test of the handle
savePng_open ==
    /\ gpc = "open"
    /\ \E created \in BOOLEAN :
          /\ fs' = makeFileHandle(fs, filename, created)
          /\ file' = created
          /\ calls' = Append(calls, Call("open", created))
          /\ IF created
             THEN gpc' = "write" /\ UNCHANGED result
             ELSE result' = "false" /\ gpc' = "ret"
    /\ UNCHANGED <<ctlVars, textUtf8, filename, eccLevel, qr, scale, pngData,
                   fsBefore, ncalls, rasterVars, scaleVars>>

\* return ok && bytesWritten == dataSize;
WriteSucceeded(ok, bytesWritten, dataSize) == ok /\ bytesWritten = dataSize

\* lines 144-155, 37-39: WriteFile puts a prefix of the stream in the file and
\* reports how long it is; the handle is closed when savePng returns
savePng_write ==
    /\ gpc = "write"
    /\ \E ok \in BOOLEAN, bytesWritten \in 0..Len(pngData) :
          /\ (bytesWritten = Len(pngData)) => ok
          /\ fs' = [fs EXCEPT ![filename] = FileOf(SubSeq(pngData, 1, bytesWritten))]
          /\ file' = FALSE
          /\ calls' = Append(calls,
                 Call("write", WriteSucceeded(ok, bytesWritten, Len(pngData))))
          /\ IF WriteSucceeded(ok, bytesWritten, Len(pngData))
             THEN gpc' = "shell" /\ UNCHANGED result
             ELSE result' = "false" /\ gpc' = "ret"
    /\ UNCHANGED <<ctlVars, textUtf8, filename, eccLevel, qr, scale, pngData,
                   fsBefore, ncalls, rasterVars, scaleVars>>

\* (void)openWithShellExecute(filename); return true;
ResultAfterShellFollowsOpen(opened) == IF opened THEN "true" ELSE "false"

ResultAfterShell(opened) == "true"

\* lines 41-42, 158-168
generate_shell ==
    /\ gpc = "shell"
    /\ \E opened \in BOOLEAN :
          /\ calls' = Append(calls, Call("shell", opened))
          /\ result' = ResultAfterShell(opened)
          /\ gpc' = "ret"
    /\ UNCHANGED <<fs, ctlVars, textUtf8, filename, eccLevel, qr, scale,
                   pngData, file, fsBefore, ncalls, rasterVars, scaleVars>>

\* ------------------------------------------------------------------ SpecGen
\* the byte lengths generate is called with: both sides of every threshold
GenLens == {0, 1, 50, 100, 101, 500, 501, 2953, 2954}

GenTexts == [len : GenLens, supported : BOOLEAN]

IdleCtl ==
    /\ phase = "start"
    /\ tempPngPath_ = NoPath
    /\ status = "ready"
    /\ dialogs = <<>>
    /\ cpc = "idle"
    /\ textW = 0
    /\ clicks = 0
    /\ sessionPath = NoPath
    /\ statusBefore = "ready"
    /\ pathBefore = NoPath
    /\ generateCalled = FALSE
    /\ last = "none"

IdleGen ==
    /\ gpc = "none"
    /\ textUtf8 = NoText
    /\ filename = NoPath
    /\ eccLevel = "none"
    /\ qr = NoQr
    /\ scale = 0
    /\ pngData = <<>>
    /\ file = FALSE
    /\ result = "none"
    /\ calls = <<>>
    /\ ncalls = 0

IdleRaster ==
    /\ r_qr = [size |-> 0, modules |-> <<>>]
    /\ r_scale = 0
    /\ r_border = 0
    /\ image = <<>>
    /\ r_y = -1
    /\ r_done = FALSE

IdleScale ==
    /\ s_qrSize = 0
    /\ s_scale = 0
    /\ s_done = FALSE

\* the files a run starts with: a .png of the temp directory may be there
InitialFiles ==
    { f \in [Names -> {AbsentFile, ForeignFile}] :
        \A n \in Names : n.ext = "tmp" => f[n] = AbsentFile }

InitGen ==
    /\ fs \in InitialFiles
    /\ IdleCtl
    /\ gpc = "entry"
    /\ textUtf8 \in GenTexts
    /\ filename \in PngNames
    /\ eccLevel = "none"
    /\ qr = NoQr
    /\ scale = 0
    /\ pngData = <<>>
    /\ file = FALSE
    /\ result = "none"
    /\ calls = <<>>
    /\ fsBefore = fs
    /\ ncalls = 1
    /\ IdleRaster
    /\ IdleScale

\* a caller invokes generate again once the last call has returned
GenCall ==
    /\ gpc = "ret"
    /\ ncalls < MaxCalls
    /\ \E text \in GenTexts, path \in PngNames : EnterGenerate(text, path)
    /\ ncalls' = ncalls + 1
    /\ UNCHANGED <<fs, ctlVars, rasterVars, scaleVars>>

NextGen ==
    \/ GenCall
    \/ generate_entry
    \/ generate_encode
    \/ generate_png
    \/ savePng_open
    \/ savePng_write
    \/ generate_shell

SpecGen == InitGen /\ [][NextGen]_vars

\* --------------------------------------------------------- claims of SpecGen
Returned == gpc = "ret"

Invoked(stage) == \E i \in DOMAIN calls : calls[i].stage = stage

Succeeded(stage) == \E i \in DOMAIN calls : calls[i] = Call(stage, TRUE)

\* C1: a call of generate that returns false leaves the file at path exactly
\* as it was before the call (nothing partial, nothing truncated).
C1_FailedCallLeavesFile ==
    (Returned /\ result = "false") => fs[filename] = fsBefore[filename]

\* C2: an empty text or one of more than 2953 bytes is rejected with false
\* before any stage runs and without touching any file; a text of exactly
\* 2953 bytes passes the pre-check and reaches the encoder.
C2_PreCheckRejection ==
    /\ (textUtf8.len = 0 \/ textUtf8.len > 2953) =>
          /\ calls = <<>>
          /\ fs = fsBefore
          /\ result \in {"none", "false"}
          /\ Returned => result = "false"
    /\ (textUtf8.len = 2953 /\ Returned) => (Invoked("ecc") /\ Invoked("encode"))

C2_Witness ==
    /\ Returned
    /\ textUtf8.len = 2954
    /\ result = "false"
    /\ fsBefore[filename] = ForeignFile

\* C3 as stated: every supported text of 1 to 2953 bytes makes generate
\* return true with a PNG of width and height (gridSize + 8) * scale.
C3_ValidTextSucceeds ==
    (Returned /\ textUtf8.len >= 1 /\ textUtf8.len <= 2953 /\ textUtf8.supported) =>
        /\ result = "true"
        /\ fs[filename].exists
        /\ Len(fs[filename].bytes) >= 2
        /\ fs[filename].bytes[1] = (qr.size + 8) * scale
        /\ fs[filename].bytes[2] = (qr.size + 8) * scale

\* C3 amended: every supported text of 1 to 2953 bytes makes generate return
\* true, provided the PNG serializer reports no error, the file is opened and
\* every byte is written; the file then holds a PNG of width and height
\* (gridSize + 8) * scale, scale being 6, 8 or 10 by the tier of gridSize.
C3_ValidTextSucceedsWhenIoSucceeds ==
    (/\ Returned
     /\ textUtf8.len >= 1 /\ textUtf8.len <= 2953 /\ textUtf8.supported
     /\ \A i \in DOMAIN calls :
           calls[i].stage \in {"serialize", "open", "write"} => calls[i].ok) =>
        /\ result = "true"
        /\ qr.size \in EncoderSizes
        /\ scale = (IF qr.size > 30 THEN 6 ELSE IF qr.size >= 21 THEN 8 ELSE 10)
        /\ fs[filename].exists
        /\ Len(fs[filename].bytes) >= 2
        /\ fs[filename].bytes[1] = (qr.size + 8) * scale
        /\ fs[filename].bytes[2] = (qr.size + 8) * scale

C3_Witness ==
    /\ Returned
    /\ textUtf8 = [len |-> 2953, supported |-> TRUE]
    /\ result = "true"
    /\ qr.size = 177
    /\ fs[filename].bytes[1] = 1110

\* C4: the level is HIGH up to 100 bytes, MEDIUM from 101 to 500, LOW above;
\* QUARTILE is never chosen; a call chooses the level exactly once, and every
\* call that passes the pre-check chooses one.
C4_EccIsFunctionOfLength ==
    /\ eccLevel # "none" =>
          /\ textUtf8.len <= 100 => eccLevel = "HIGH"
          /\ (textUtf8.len >= 101 /\ textUtf8.len <= 500) => eccLevel = "MEDIUM"
          /\ textUtf8.len > 500 => eccLevel = "LOW"
          /\ eccLevel # "QUARTILE"
          /\ Cardinality({ i \in DOMAIN calls : calls[i].stage = "ecc" }) = 1
    /\ (gpc # "entry" /\ textUtf8.len >= 1 /\ textUtf8.len <= 2953) =>
          eccLevel \in {"LOW", "MEDIUM", "HIGH"}

C4_Witness ==
    /\ Returned
    /\ textUtf8.len = 100
    /\ eccLevel = "HIGH"
    /\ result = "true"

\* C6: the open request is issued only once the whole PNG stream is in the
\* file and the handle is closed; no call that returns false issues it; when
\* encode, serialize, open and write succeeded the call returns true whatever
\* the open request answers.
C6_OpenAfterWriteAndIgnored ==
    /\ \A i \in DOMAIN calls :
          calls[i].stage = "shell" =>
             /\ i > 1
             /\ calls[i - 1] = Call("write", TRUE)
             /\ fs[filename] = FileOf(pngData)
             /\ pngData # <<>>
             /\ ~file
    /\ (Returned /\ result = "false") => ~Invoked("shell")
    /\ (/\ Returned
        /\ Succeeded("encode") /\ Succeeded("serialize")
        /\ Succeeded("open") /\ Succeeded("write")) =>
          (result = "true" /\ Invoked("shell"))

C6_Witness ==
    /\ Returned
    /\ Len(calls) = 6
    /\ calls[6] = Call("shell", FALSE)
    /\ result = "true"

\* C8: no exception leaves generate; a failed stage is the last stage of its
\* call and makes the call return false; a write that left anything but the
\* whole stream in the file makes the call return false; no stage runs twice
\* in one call.
C8_FailClosed ==
    /\ result # "exception"
    /\ \A i \in DOMAIN calls : ~calls[i].ok => i = Len(calls)
    /\ (Returned /\ \E i \in DOMAIN calls : calls[i].stage # "shell" /\ ~calls[i].ok) =>
          result = "false"
    /\ (Returned /\ Invoked("write") /\ fs[filename].bytes # pngData) =>
          result = "false"
    /\ \A i, j \in DOMAIN calls : i # j => calls[i].stage # calls[j].stage

C8_Witness ==
    /\ Returned
    /\ calls = <<Call("ecc", TRUE), Call("encode", FALSE)>>
    /\ result = "false"
    /\ fs = fsBefore

\* ------------------------------------------------- QrController / MainWindow
\* ::DeleteFileW(name)
DeleteFileW(files, name) == [files EXCEPT ![name] = AbsentFile]

\* lines 276-281: the name up to its last dot, then ".png"
PngPathOf(tempFile) == [tempFile EXCEPT !.ext = "png"]

\* lines 269-283: GetTempFileNameW has created tempFile; it is deleted, and so
\* is whatever is at the .png path
initTempPngPathFiles(files, tempFile) ==
    DeleteFileW(DeleteFileW(files, tempFile), PngPathOf(tempFile))

\* the state a behaviour of the controller starts in: the controller is
\* constructed, no window exists yet
Init ==
    /\ fs \in InitialFiles
    /\ IdleCtl
    /\ IdleGen
    /\ fsBefore = fs
    /\ IdleRaster
    /\ IdleScale

\* MainWindow::run up to the message loop: initialize (initTempPngPath) and
\* createMainWindow (onCreate shows the status "ready"); when GetTempPathW or
\* GetTempFileNameW fails run returns 1 without a window
initialize ==
    /\ phase = "start"
    /\ \E gotTempPath \in BOOLEAN, gotTempFile \in BOOLEAN, stem \in Stems :
          LET tempFile == [stem |-> stem, ext |-> "tmp"] IN
          IF gotTempPath /\ gotTempFile
          THEN /\ ~fs[tempFile].exists
               /\ fs' = initTempPngPathFiles(fs, tempFile)
               /\ tempPngPath_' = PngPathOf(tempFile)
               /\ sessionPath' = PngPathOf(tempFile)
               /\ status' = "ready"
               /\ phase' = "running"
          ELSE /\ phase' = "exited"
               /\ UNCHANGED <<fs, tempPngPath_, sessionPath, status>>
    /\ last' = "initialize"
    /\ UNCHANGED <<dialogs, cpc, textW, clicks, statusBefore, pathBefore,
                   generateCalled, genVars, rasterVars, scaleVars>>

\* the wide-character lengths of the text in the edit control
WideLens == {0, 1, 1000, 2953}

\* wstringToUtf8: the byte length of the UTF-8 text; WideCharToMultiByte
\* answers the number of bytes (1 to 3 for each wide character) or 0
wstringToUtf8(w, bytesPerChar, converted) ==
    IF w = 0 THEN 0
    ELSE IF ~converted THEN 0
    ELSE w * bytesPerChar

\* a frame that says generate was not called
NoGenerate(text) ==
    /\ gpc' = "none"
    /\ textUtf8' = text
    /\ filename' = NoPath
    /\ eccLevel' = "none"
    /\ qr' = NoQr
    /\ scale' = 0
    /\ pngData' = <<>>
    /\ file' = FALSE
    /\ result' = "none"
    /\ calls' = <<>>
    /\ fsBefore' = fs

\* lines 181-205: a click on the button, up to the call of generate
onGenerate ==
    /\ phase \in {"running", "destroyed"}
    /\ cpc = "idle"
    /\ clicks < MaxClicks
    /\ \E w \in WideLens, bytesPerChar \in 1..3, converted \in BOOLEAN,
          supported \in BOOLEAN :
          LET text == [len |-> wstringToUtf8(w, bytesPerChar, converted),
                       supported |-> supported] IN
          /\ textW' = w
          /\ IF w <= 0
             THEN /\ dialogs' = <<"dlg_empty_input">>
                  /\ NoGenerate(NoText)
                  /\ UNCHANGED <<status, cpc, generateCalled>>
             ELSE IF text.len = 0
             THEN /\ dialogs' = <<"dlg_utf8_failed">>
                  /\ NoGenerate(text)
                  /\ UNCHANGED <<status, cpc, generateCalled>>
             ELSE IF tempPngPath_ = NoPath
             THEN /\ dialogs' = <<"dlg_path_uninitialized">>
                  /\ NoGenerate(text)
                  /\ UNCHANGED <<status, cpc, generateCalled>>
             ELSE /\ dialogs' = <<>>
                  /\ status' = "generating"
                  /\ EnterGenerate(text, tempPngPath_)
                  /\ generateCalled' = TRUE
                  /\ cpc' = "in_generate"
    /\ clicks' = clicks + 1
    /\ statusBefore' = status
    /\ pathBefore' = tempPngPath_
    /\ last' = "onGenerate"
    /\ UNCHANGED <<fs, phase, tempPngPath_, sessionPath, ncalls, rasterVars,
                   scaleVars>>

\* lines 207-216: the status after generate
StatusAfterKeepsOnFailure(ok, current) == IF ok THEN "done" ELSE current

StatusAfter(ok, current) == IF ok THEN "done" ELSE "failed"

\* lines 207-216: generate has returned
onGenerateReturn ==
    /\ cpc = "in_generate"
    /\ gpc = "ret"
    /\ status' = StatusAfter(result = "true", status)
    /\ dialogs' = IF result = "true" THEN dialogs
                  ELSE Append(dialogs, "dlg_generate_failed")
    /\ cpc' = "idle"
    /\ UNCHANGED <<fs, phase, tempPngPath_, textW, clicks, sessionPath,
                   statusBefore, pathBefore, generateCalled, last, genVars,
                   rasterVars, scaleVars>>

\* lines 219-224: the files and the stored path after onDestroy
onDestroyFilesKeeps(files, path) == files

onDestroyFiles(files, path) ==
    IF path # NoPath THEN DeleteFileW(files, path) ELSE files

onDestroyPath(path) == NoPath

\* WM_DESTROY: MainWindow::onDestroy calls QrController::onDestroy
onDestroy ==
    /\ phase = "running"
    /\ cpc = "idle"
    /\ fs' = onDestroyFiles(fs, tempPngPath_)
    /\ tempPngPath_' = onDestroyPath(tempPngPath_)
    /\ phase' = "destroyed"
    /\ last' = "onDestroy"
    /\ UNCHANGED <<status, dialogs, cpc, textW, clicks, sessionPath,
                   statusBefore, pathBefore, generateCalled, genVars,
                   rasterVars, scaleVars>>

Next ==
    \/ initialize
    \/ onGenerate
    \/ generate_entry
    \/ generate_encode
    \/ generate_png
    \/ savePng_open
    \/ savePng_write
    \/ generate_shell
    \/ onGenerateReturn
    \/ onDestroy

Spec == Init /\ [][Next]_vars

C10_ClickResolves ==
    /\ gpc \notin {"none", "ret"} => (status = "generating" /\ cpc = "in_generate")
    /\ cpc = "idle" => status # "generating"
    /\ (cpc = "idle" /\ last = "onGenerate") =>
          IF textW = 0 \/ textUtf8.len = 0 \/ pathBefore = NoPath
          THEN /\ Len(dialogs) = 1
               /\ dialogs[1] \in {"dlg_empty_input", "dlg_utf8_failed",
                                  "dlg_path_uninitialized"}
               /\ gpc = "none"
               /\ status = statusBefore
               /\ fs = fsBefore
          ELSE /\ gpc = "ret"
               /\ result \in {"true", "false"}
               /\ result = "true" => (status = "done" /\ dialogs = <<>>)
               /\ result = "false" =>
                     (status = "failed" /\ dialogs = <<"dlg_generate_failed">>)

C10_Witness ==
    /\ cpc = "idle"
    /\ last = "onGenerate"
    /\ status = "failed"
    /\ statusBefore = "done"
    /\ dialogs = <<"dlg_generate_failed">>
    /\ Len(calls) = 4
    /\ calls[4] = Call("open", FALSE)

\* --------------------------------------------- SpecRaster: the pixel loop
\* qr.getModule(x, y)
getModule(qrc, x, y) == qrc.modules[<<x, y>>]

\* lines 103-108
isBlack(qrc, sc, bd, x, y) ==
    LET qrX == (x \div sc) - bd
        qrY == (y \div sc) - bd
    IN  /\ (qrX >= 0 /\ qrX < qrc.size /\ qrY >= 0 /\ qrY < qrc.size)
        /\ getModule(qrc, qrX, qrY)

\* lines 111-112: the place of pixel (x, y) in the flat RGBA buffer
PixelIndexTransposed(x, y, imgSize) == (x * imgSize + y) * 4

PixelIndex(x, y, imgSize) == (y * imgSize + x) * 4

\* lines 102-118: the inner loop, over the pixels x of row y
RECURSIVE fillRow(_, _, _, _, _, _, _)
fillRow(img, qrc, sc, bd, imgSize, y, x) ==
    IF x >= imgSize THEN img
    ELSE LET index == PixelIndex(x, y, imgSize)
             painted ==
                 IF isBlack(qrc, sc, bd, x, y)
                 THEN [img EXCEPT ![index + 1] = 0, ![index + 2] = 0,
                                  ![index + 3] = 0, ![index + 4] = 255]
                 ELSE img
         IN  fillRow(painted, qrc, sc, bd, imgSize, y, x + 1)

\* the symbols rasterized: every grid of side 1 to MaxSize
SmallGrids ==
    UNION { { [size |-> n, modules |-> m] :
                m \in [(0..(n - 1)) \X (0..(n - 1)) -> BOOLEAN] } :
            n \in 1..MaxSize }

InitRaster ==
    /\ fs = [n \in Names |-> AbsentFile]
    /\ IdleCtl
    /\ IdleGen
    /\ fsBefore = fs
    /\ r_qr \in SmallGrids
    /\ r_scale \in 1..MaxScale
    /\ r_border \in 0..MaxBorder
    /\ image = <<>>
    /\ r_y = -1
    /\ r_done = FALSE
    /\ IdleScale

\* lines 96-99: the buffer of imgSize * imgSize pixels, every byte 255
Rasterize_alloc ==
    /\ r_y = -1
    /\ image' = [i \in 1..(ImgSize(r_qr.size, r_scale, r_border)
                           * ImgSize(r_qr.size, r_scale, r_border) * 4) |-> 255]
    /\ r_y' = 0
    /\ UNCHANGED <<fs, ctlVars, genVars, r_qr, r_scale, r_border, r_done,
                   scaleVars>>

\* lines 101-119: one turn of the outer loop paints row y; the loop ends when
\* y reaches imgSize
Rasterize_row ==
    /\ r_y >= 0
    /\ r_y < ImgSize(r_qr.size, r_scale, r_border)
    /\ image' = fillRow(image, r_qr, r_scale, r_border,
                        ImgSize(r_qr.size, r_scale, r_border), r_y, 0)
    /\ r_y' = r_y + 1
    /\ r_done' = (r_y + 1 >= ImgSize(r_qr.size, r_scale, r_border))
    /\ UNCHANGED <<fs, ctlVars, genVars, r_qr, r_scale, r_border, scaleVars>>

NextRaster ==
    \/ Rasterize_alloc
    \/ Rasterize_row

SpecRaster == InitRaster /\ [][NextRaster]_vars

\* C9: the bitmap is a square of side (size + 2*border) * scale in RGBA; the
\* pixel (x, y) is opaque black exactly when (x / scale - border,
\* y / scale - border) is a module of the grid that is on, opaque white
\* otherwise; every pixel of the quiet zone is white; the center pixel of
\* every module is black exactly when the module is on.
C9_RasterizerPixels ==
    r_done =>
        LET side == (r_qr.size + 2 * r_border) * r_scale
            Pixel(x, y) == << image[(y * side + x) * 4 + 1],
                              image[(y * side + x) * 4 + 2],
                              image[(y * side + x) * 4 + 3],
                              image[(y * side + x) * 4 + 4] >>
            Black == <<0, 0, 0, 255>>
            White == <<255, 255, 255, 255>>
            lo == r_border * r_scale
            hi == (r_border + r_qr.size) * r_scale
        IN  /\ Len(image) = side * side * 4
            /\ \A x \in 0..(side - 1), y \in 0..(side - 1) :
                  LET qrX == (x \div r_scale) - r_border
                      qrY == (y \div r_scale) - r_border
                      on  == /\ qrX \in 0..(r_qr.size - 1)
                             /\ qrY \in 0..(r_qr.size - 1)
                             /\ r_qr.modules[<<qrX, qrY>>]
                  IN  /\ Pixel(x, y) = IF on THEN Black ELSE White
                      /\ (x < lo \/ x >= hi \/ y < lo \/ y >= hi) => Pixel(x, y) = White
            /\ \A mx \in 0..(r_qr.size - 1), my \in 0..(r_qr.size - 1) :
                  LET cx == (mx + r_border) * r_scale + (r_scale \div 2)
                      cy == (my + r_border) * r_scale + (r_scale \div 2)
                  IN  (Pixel(cx, cy) = Black) <=> r_qr.modules[<<mx, my>>]

C9_Witness ==
    /\ r_done
    /\ r_qr.size = 2
    /\ r_scale = 2
    /\ r_border = 1
    /\ r_qr.modules[<<1, 0>>]
    /\ ~r_qr.modules[<<0, 1>>]
    /\ Len(image) = 256
    /\ image[(2 * 8 + 4) * 4 + 1] = 0
    /\ image[(4 * 8 + 2) * 4 + 1] = 255

\* ------------------------------------------- SpecScale: calculateScale alone
InitScale ==
    /\ fs = [n \in Names |-> AbsentFile]
    /\ IdleCtl
    /\ IdleGen
    /\ fsBefore = fs
    /\ IdleRaster
    /\ s_qrSize \in 1..SizeOfVersion(MaxVersion)
    /\ s_scale = 0
    /\ s_done = FALSE

CalcScale ==
    /\ ~s_done
    /\ s_scale' = calculateScale(s_qrSize)
    /\ s_done' = TRUE
    /\ UNCHANGED <<fs, ctlVars, genVars, rasterVars, s_qrSize>>

NextScale == CalcScale

SpecScale == InitScale /\ [][NextScale]_vars

\* C5: the scale is 6 above 30, 8 from 21 to 30, 10 up to 20; for every side
\* the encoder can return the image side (size + 8) * scale lies between 200
\* and 1200 pixels.
C5_ScaleTiers ==
    s_done =>
        /\ s_qrSize > 30 => s_scale = 6
        /\ (s_qrSize >= 21 /\ s_qrSize <= 30) => s_scale = 8
        /\ s_qrSize <= 20 => s_scale = 10
        /\ s_qrSize \in EncoderSizes =>
              ((s_qrSize + 8) * s_scale >= 200 /\ (s_qrSize + 8) * s_scale <= 1200)

C5_Witness ==
    /\ s_done
    /\ s_qrSize = 177
    /\ s_scale = 6
    /\ (s_qrSize + 8) * s_scale = 1110

====
